---- MODULE Spec2Model ----
\* Controller execution pipeline of PureArchitecture:
\*   createPureController(...).handle      src/src/presentation/pure_controller.ts
\*   PureController.handle (HTTP, legacy)  src/src/presentation/controllers/pure_controller.ts
\* A handle invocation is a JavaScript async function: every stretch of code
\* between two awaits runs to completion, so each stretch is one action.  The
\* calls a stretch makes on hooks and collaborators are appended, in program
\* order, to the call log `calls`.
EXTENDS Integers, Sequences, FiniteSets, TLC

\* ---------------------------------------------------------------- bounds
MaxInvocations == 2   \* handle invocations the model has room for
MaxTraces == 2        \* informational traces carried by one Result
MaxErrors == 2        \* errors carried by one Failure
ConcTraces == 0       \* the same two, when two invocations are in flight
ConcErrors == 1

Invocations == 1..MaxInvocations
MaxMsgs == MaxTraces + MaxErrors
Msg == 1..MaxMsgs

\* ------------------------------------------------------------ data model
Undefined == "undefined"
Locales == {"en", "fr"}
\* localizedMessage of a message when the Result reaches the controller:
\* not set, or set upstream (by the use case or the extraction hook)
UpstreamLocalizations == {Undefined, "upstream"}

\* type and code of the errors a Failure may carry
ErrorKinds ==
    { [type |-> "processError", code |-> "notFound"],
      [type |-> "processError", code |-> "invalid"],
      [type |-> "technicalIssue", code |-> "unavailable"] }

\* a message: type, code, data and localizedMessage (loc); the data of the
\* message m is written m, 0 stands for no data
NoMessage == [type |-> "none", code |-> "none", data |-> 0, loc |-> Undefined]
EmptyHeap == [m \in Msg |-> NoMessage]

NoResult == [kind |-> "none", errors |-> <<>>, traces |-> <<>>, src |-> "none"]

\* the use-case input: { requester, payload }; requester is a reference
NoInput == [requester |-> 0, payload |-> Undefined]

\* ApiResponse: { success, errors, metadata: { trace } }
NoApiResponse == [success |-> TRUE, errors |-> <<>>, metadata |-> [trace |-> <<>>]]

\* A Result of pure-trace as the controller sees it: isFailure(), getErrors(),
\* getTraces().  The informational traces are the messages 1..nT, the errors
\* the messages nT+1..nT+nE; inTraces tells whether getTraces() also returns
\* the errors.
MkResult(kind, nT, nE, inTraces, src) ==
    LET errors == [i \in 1..nE |-> nT + i]
        infos == [i \in 1..nT |-> i]
    IN [kind |-> kind,
        errors |-> errors,
        traces |-> IF inTraces THEN infos \o errors ELSE infos,
        src |-> src]

\* The message objects of such a Result.
MkHeap(nT, nE, infoLoc, errKind, errLoc) ==
    [m \in Msg |->
        IF m <= nT
        THEN [type |-> "information", code |-> "info", data |-> m,
              loc |-> infoLoc[m]]
        ELSE IF m <= nT + nE
        THEN [type |-> errKind[m - nT].type, code |-> errKind[m - nT].code,
              data |-> m, loc |-> errLoc[m - nT]]
        ELSE NoMessage]

\* Repository: update?, softDelete? and restore? are optional methods
OptionalCapabilities == {"update", "softDelete", "restore"}

VARIABLES
    translator,   \* the injected Translator: "sets" localizedMessage or "leaves" it unset
    pc,           \* position of each handle invocation
    controller,   \* which handle an invocation runs: "pure" or "http"
    requester,    \* the requester object request.getRequester() returns
    locale,       \* preferredLocale / preferredCulture read at the start
    input,        \* the use-case input handed to interactor.execute
    context,      \* context object returned by initContext (0: none)
    result,       \* the Result the awaited chain settles with
    heap,         \* the message objects of that Result
    heap0,        \* the same objects as they were when the chain settled
    given,        \* the Result handed to handleFailure / handleSuccess
    resolved,     \* what the promise returned by handle settled with
    status,       \* HTTP: argument of response.setStatus (0: not called)
    api,          \* HTTP: the ApiResponse handle returns
    repository,   \* interactors: the optional methods the injected Repository has
    calls,        \* log of hook and collaborator calls
    todo          \* calls of the continuation still to make after an awaited hook

vars == <<translator, pc, controller, requester, locale, input, context, result,
          heap, heap0, given, resolved, status, api, repository, calls, todo>>

Ev(r, op, arg, ctx, val) ==
    [req |-> r, op |-> op, arg |-> arg, ctx |-> ctx, val |-> val]

Init ==
    /\ translator \in {"sets", "leaves"}
    /\ pc = [r \in Invocations |-> "idle"]
    /\ controller = [r \in Invocations |-> "none"]
    /\ requester = [r \in Invocations |-> [id |-> r, preferredLocale |-> Undefined]]
    /\ locale = [r \in Invocations |-> Undefined]
    /\ input = [r \in Invocations |-> NoInput]
    /\ context = [r \in Invocations |-> 0]
    /\ result = [r \in Invocations |-> NoResult]
    /\ heap = [r \in Invocations |-> EmptyHeap]
    /\ heap0 = [r \in Invocations |-> EmptyHeap]
    /\ given = [r \in Invocations |-> NoResult]
    /\ resolved = [r \in Invocations |-> "pending"]
    /\ status = [r \in Invocations |-> 0]
    /\ api = [r \in Invocations |-> NoApiResponse]
    /\ repository = OptionalCapabilities
    /\ calls = <<>>
    /\ todo = [r \in Invocations |-> <<>>]

\* ------------------------------------------------- inputs of one invocation
\* Failures a hook, the schema validation or the use case may return.
FailureInputsUpTo(src, kinds, minErrors, maxT, maxE) ==
    LET infoLocs == UNION { [1..nT -> UpstreamLocalizations] : nT \in 0..maxT }
        errs == UNION { [1..nE -> kinds \X UpstreamLocalizations] :
                        nE \in minErrors..maxE }
    IN { [res |-> MkResult("Failure", Len(infoLoc), Len(err), inTraces, src),
          heap |-> MkHeap(Len(infoLoc), Len(err), infoLoc,
                          [i \in 1..Len(err) |-> err[i][1]],
                          [i \in 1..Len(err) |-> err[i][2]])]
         : infoLoc \in infoLocs, err \in errs, inTraces \in BOOLEAN }

FailureInputs(src, kinds, minErrors) ==
    FailureInputsUpTo(src, kinds, minErrors, MaxTraces, MaxErrors)

\* Successes the use case may return.
SuccessInputsUpTo(src, maxT) ==
    UNION { { [res |-> MkResult("Success", nT, 0, FALSE, src),
               heap |-> MkHeap(nT, 0, infoLoc, <<>>, <<>>)]
              : infoLoc \in [1..nT -> UpstreamLocalizations] }
            : nT \in 0..maxT }

SuccessInputs(src) == SuccessInputsUpTo(src, MaxTraces)

\* pureZodParse (pure-trace) reports one processError per violated constraint;
\* the code it gives them is set in pure-trace, not in this repository
ZodErrorKinds == { [type |-> "processError", code |-> "shapeInvalid"] }

\* ------------------------------------------------------------ translation
\* Translator.translate(message, locale): in-place mutation of the message
Translate(h, m, l) ==
    IF translator = "sets" THEN [h EXCEPT ![m].loc = l] ELSE h

\* mutant: the trace loop without its localizedMessage guard
RECURSIVE TranslateTraces_NoGuard(_, _, _, _)
TranslateTraces_NoGuard(r, traces, h, l) ==
    IF traces = <<>>
    THEN [calls |-> <<>>, heap |-> h]
    ELSE LET m == Head(traces)
             rest == TranslateTraces_NoGuard(r, Tail(traces), Translate(h, m, l), l)
         IN [calls |-> <<Ev(r, "translate", m, 0, l)>> \o rest.calls,
             heap |-> rest.heap]

\* for (const trace of result.getTraces())
\*     if (trace.localizedMessage == undefined) translator.translate(trace, locale)
RECURSIVE TranslateTraces(_, _, _, _)
TranslateTraces(r, traces, h, l) ==
    IF traces = <<>>
    THEN [calls |-> <<>>, heap |-> h]
    ELSE LET m == Head(traces)
             call == h[m].loc = Undefined
             h1 == IF call THEN Translate(h, m, l) ELSE h
             rest == TranslateTraces(r, Tail(traces), h1, l)
         IN [calls |-> (IF call THEN <<Ev(r, "translate", m, 0, l)>> ELSE <<>>)
                       \o rest.calls,
             heap |-> rest.heap]

\* ------------------------------------------- createPureController(...).handle
\* the request data extractRequestData may return
RequestData == {"d1", "d2"}
\* the validated data pureZodParse(requestData, schema) succeeds with
ZodParsed(d) == "parsed(" \o d \o ")"
\* the payload this.mapper.to(validatedData) returns
MapperTo(v) == "to(" \o v \o ")"

ControllerResultOf(ctx) == "response" \o ToString(ctx)

\* mutant: the locale is read before the context is initialised
PureSyncChain_LocaleFirst(r, ctx, extracted, valid, l, d) ==
    <<Ev(r, "getRequester", 0, 0, l),
      Ev(r, "initContext", 0, ctx, ""),
      Ev(r, "extractRequestData", 0, 0, IF extracted THEN d ELSE "")>>
    \o (IF extracted
        THEN <<Ev(r, "pureZodParse", 0, 0, IF valid THEN ZodParsed(d) ELSE "")>>
        ELSE <<>>)
    \o (IF extracted /\ valid
        THEN <<Ev(r, "getRequester", 0, 0, l),
               Ev(r, "mapper.to", 0, 0, MapperTo(ZodParsed(d)))>>
        ELSE <<>>)

\* mutant: the mapping step also runs on data that failed validation
PureSyncChain_MapInvalid(r, ctx, extracted, valid, l, d) ==
    <<Ev(r, "initContext", 0, ctx, ""),
      Ev(r, "getRequester", 0, 0, l),
      Ev(r, "extractRequestData", 0, 0, IF extracted THEN d ELSE "")>>
    \o (IF extracted
        THEN <<Ev(r, "pureZodParse", 0, 0, IF valid THEN ZodParsed(d) ELSE "")>>
        ELSE <<>>)
    \o (IF extracted
        THEN <<Ev(r, "getRequester", 0, 0, l),
               Ev(r, "mapper.to", 0, 0, MapperTo(ZodParsed(d)))>>
        ELSE <<>>)

\* mutant: the validation step also runs when extraction failed
PureSyncChain_ValidateAlways(r, ctx, extracted, valid, l, d) ==
    <<Ev(r, "initContext", 0, ctx, ""),
      Ev(r, "getRequester", 0, 0, l),
      Ev(r, "extractRequestData", 0, 0, IF extracted THEN d ELSE ""),
      Ev(r, "pureZodParse", 0, 0, IF valid THEN ZodParsed(d) ELSE "")>>
    \o (IF extracted /\ valid
        THEN <<Ev(r, "getRequester", 0, 0, l),
               Ev(r, "mapper.to", 0, 0, MapperTo(ZodParsed(d)))>>
        ELSE <<>>)

\* mutant: the mapper is applied to the extracted data, not the validated
PureSyncChain_MapRaw(r, ctx, extracted, valid, l, d) ==
    <<Ev(r, "initContext", 0, ctx, ""),
      Ev(r, "getRequester", 0, 0, l),
      Ev(r, "extractRequestData", 0, 0, IF extracted THEN d ELSE "")>>
    \o (IF extracted
        THEN <<Ev(r, "pureZodParse", 0, 0, IF valid THEN ZodParsed(d) ELSE "")>>
        ELSE <<>>)
    \o (IF extracted /\ valid
        THEN <<Ev(r, "getRequester", 0, 0, l),
               Ev(r, "mapper.to", 0, 0, MapperTo(d))>>
        ELSE <<>>)

\* the synchronous chain handed to ResultAsync.liftResult:
\*   initContext; getRequester().preferredLocale;
\*   extractRequestData(request).chainSuccess(pureZodParse).mapSuccess(mapper.to)
PureSyncChain(r, ctx, extracted, valid, l, d) ==
    <<Ev(r, "initContext", 0, ctx, ""),
      Ev(r, "getRequester", 0, 0, l),
      Ev(r, "extractRequestData", 0, 0, IF extracted THEN d ELSE "")>>
    \o (IF extracted
        THEN <<Ev(r, "pureZodParse", 0, 0, IF valid THEN ZodParsed(d) ELSE "")>>
        ELSE <<>>)
    \o (IF extracted /\ valid
        THEN <<Ev(r, "getRequester", 0, 0, l),
               Ev(r, "mapper.to", 0, 0, MapperTo(ZodParsed(d)))>>
        ELSE <<>>)

\* mutant: the error loop without its localizedMessage guard
RECURSIVE PureErrorLoop_NoGuard(_, _, _, _, _)
PureErrorLoop_NoGuard(r, errors, h, l, ctx) ==
    IF errors = <<>>
    THEN [calls |-> <<>>, heap |-> h]
    ELSE LET m == Head(errors)
             rest == PureErrorLoop_NoGuard(r, Tail(errors), Translate(h, m, l), l, ctx)
         IN [calls |-> <<Ev(r, "translate", m, 0, l),
                         Ev(r, "handleError", m, ctx, "")>> \o rest.calls,
             heap |-> rest.heap]

\* mutant: handleError is called before the error is translated
RECURSIVE PureErrorLoop_HandleFirst(_, _, _, _, _)
PureErrorLoop_HandleFirst(r, errors, h, l, ctx) ==
    IF errors = <<>>
    THEN [calls |-> <<>>, heap |-> h]
    ELSE LET m == Head(errors)
             call == h[m].loc = Undefined
             h1 == IF call THEN Translate(h, m, l) ELSE h
             rest == PureErrorLoop_HandleFirst(r, Tail(errors), h1, l, ctx)
         IN [calls |-> <<Ev(r, "handleError", m, ctx, "")>>
                       \o (IF call THEN <<Ev(r, "translate", m, 0, l)>> ELSE <<>>)
                       \o rest.calls,
             heap |-> rest.heap]

\* mutant: handleError is inside the localizedMessage guard
RECURSIVE PureErrorLoop_HandleInsideGuard(_, _, _, _, _)
PureErrorLoop_HandleInsideGuard(r, errors, h, l, ctx) ==
    IF errors = <<>>
    THEN [calls |-> <<>>, heap |-> h]
    ELSE LET m == Head(errors)
             call == h[m].loc = Undefined
             h1 == IF call THEN Translate(h, m, l) ELSE h
             rest == PureErrorLoop_HandleInsideGuard(r, Tail(errors), h1, l, ctx)
         IN [calls |-> (IF call THEN <<Ev(r, "translate", m, 0, l),
                                       Ev(r, "handleError", m, ctx, "")>>
                        ELSE <<>>)
                       \o rest.calls,
             heap |-> rest.heap]

\* for (const error of result.getErrors()) {
\*     if (error.localizedMessage == undefined) translator.translate(error, locale)
\*     this.handleError(error, context) }
RECURSIVE PureErrorLoop(_, _, _, _, _)
PureErrorLoop(r, errors, h, l, ctx) ==
    IF errors = <<>>
    THEN [calls |-> <<>>, heap |-> h]
    ELSE LET m == Head(errors)
             call == h[m].loc = Undefined
             h1 == IF call THEN Translate(h, m, l) ELSE h
             rest == PureErrorLoop(r, Tail(errors), h1, l, ctx)
         IN [calls |-> (IF call THEN <<Ev(r, "translate", m, 0, l)>> ELSE <<>>)
                       \o <<Ev(r, "handleError", m, ctx, "")>>
                       \o rest.calls,
             heap |-> rest.heap]

\* mutant: handleFailure is called before the per-error loop
PureDispatch_FailureFirst(r, res, h, l, ctx) ==
    IF res.kind = "Failure"
    THEN LET loop == PureErrorLoop(r, res.errors, h, l, ctx)
         IN [calls |-> <<Ev(r, "handleFailure", 0, ctx, res.kind)>> \o loop.calls,
             heap |-> loop.heap, given |-> res]
    ELSE [calls |-> <<Ev(r, "handleSuccess", 0, ctx, res.kind)>>, heap |-> h,
          given |-> res]

\* mutant: handleFailure is called after the if, on both branches
PureDispatch_FailureAlways(r, res, h, l, ctx) ==
    IF res.kind = "Failure"
    THEN LET loop == PureErrorLoop(r, res.errors, h, l, ctx)
         IN [calls |-> loop.calls \o <<Ev(r, "handleFailure", 0, ctx, res.kind)>>,
             heap |-> loop.heap, given |-> res]
    ELSE [calls |-> <<Ev(r, "handleSuccess", 0, ctx, res.kind),
                      Ev(r, "handleFailure", 0, ctx, res.kind)>>, heap |-> h,
          given |-> res]

\* mutant: handleFailure is called only for a Failure that has errors
PureDispatch_FailureIfErrors(r, res, h, l, ctx) ==
    IF res.kind = "Failure"
    THEN LET loop == PureErrorLoop(r, res.errors, h, l, ctx)
         IN [calls |-> loop.calls
                       \o (IF res.errors # <<>>
                           THEN <<Ev(r, "handleFailure", 0, ctx, res.kind)>>
                           ELSE <<>>),
             heap |-> loop.heap, given |-> res]
    ELSE [calls |-> <<Ev(r, "handleSuccess", 0, ctx, res.kind)>>, heap |-> h,
          given |-> res]

\* if (result.isFailure()) { error loop; handleFailure } else handleSuccess
PureDispatch(r, res, h, l, ctx) ==
    IF res.kind = "Failure"
    THEN LET loop == PureErrorLoop(r, res.errors, h, l, ctx)
         IN [calls |-> loop.calls \o <<Ev(r, "handleFailure", 0, ctx, res.kind)>>,
             heap |-> loop.heap, given |-> res]
    ELSE [calls |-> <<Ev(r, "handleSuccess", 0, ctx, res.kind)>>, heap |-> h,
          given |-> res]

\* return this.handleContext(context)
PureFinalize(r, ctx) ==
    <<Ev(r, "handleContext", 0, ctx, ControllerResultOf(ctx))>>

\* mutant: the failure branch returns without consolidating the context
PureContinuation_ReturnOnFailure(r, res, h, l, ctx) ==
    LET tr == TranslateTraces(r, res.traces, h, l)
        disp == PureDispatch(r, res, tr.heap, l, ctx)
        fin == IF res.kind = "Failure" THEN <<>> ELSE PureFinalize(r, ctx)
    IN [calls |-> tr.calls \o disp.calls \o fin,
        heap |-> disp.heap,
        given |-> disp.given,
        value |-> IF fin = <<>> THEN Undefined ELSE fin[Len(fin)].val]

\* mutant: the traces are translated after the outcome is dispatched
PureContinuation_DispatchFirst(r, res, h, l, ctx) ==
    LET disp == PureDispatch(r, res, h, l, ctx)
        tr == TranslateTraces(r, res.traces, disp.heap, l)
        fin == PureFinalize(r, ctx)
    IN [calls |-> disp.calls \o tr.calls \o fin,
        heap |-> tr.heap,
        given |-> disp.given,
        value |-> IF fin = <<>> THEN Undefined ELSE fin[Len(fin)].val]

\* everything handle does once the awaited chain has settled
PureContinuation(r, res, h, l, ctx) ==
    LET tr == TranslateTraces(r, res.traces, h, l)
        disp == PureDispatch(r, res, tr.heap, l, ctx)
        fin == PureFinalize(r, ctx)
    IN [calls |-> tr.calls \o disp.calls \o fin,
        heap |-> disp.heap,
        given |-> disp.given,
        value |-> IF fin = <<>> THEN Undefined ELSE fin[Len(fin)].val]

\* handle, from its call to the await: lines 212-239, for requesters of the
\* given locales, request data of the given set and Results of at most maxT
\* informational traces and maxE errors of the given kinds
PureHandleStartWith(r, locales, data, kinds, maxT, maxE) ==
    /\ pc[r] = "idle"
    /\ controller' = [controller EXCEPT ![r] = "pure"]
    /\ context' = [context EXCEPT ![r] = r]
    /\ \E l \in locales, d \in data :
        /\ requester' = [requester EXCEPT ![r].preferredLocale = l]
        /\ locale' = [locale EXCEPT ![r] = l]
        /\ \/ \* extractRequestData returns a Failure
              \E f \in FailureInputsUpTo("extract", kinds, 0, maxT, maxE) :
                /\ calls' = calls \o PureSyncChain(r, r, FALSE, FALSE, l, d)
                /\ result' = [result EXCEPT ![r] = f.res]
                /\ heap' = [heap EXCEPT ![r] = f.heap]
                /\ heap0' = [heap0 EXCEPT ![r] = f.heap]
                /\ pc' = [pc EXCEPT ![r] = "settled"]
                /\ UNCHANGED <<input, resolved>>
           \/ \* the extracted data violates the schema
              \E f \in FailureInputsUpTo("validate", ZodErrorKinds, 1, maxT, maxE) :
                /\ calls' = calls \o PureSyncChain(r, r, TRUE, FALSE, l, d)
                /\ result' = [result EXCEPT ![r] = f.res]
                /\ heap' = [heap EXCEPT ![r] = f.heap]
                /\ heap0' = [heap0 EXCEPT ![r] = f.heap]
                /\ pc' = [pc EXCEPT ![r] = "settled"]
                /\ UNCHANGED <<input, resolved>>
           \/ \* mapper.to throws: handle has no try/catch, the promise rejects
              LET chain == PureSyncChain(r, r, TRUE, TRUE, l, d)
              IN /\ calls' = calls \o [chain EXCEPT ![Len(chain)].val = Undefined]
                 /\ pc' = [pc EXCEPT ![r] = "rejected"]
                 /\ resolved' = [resolved EXCEPT ![r] = "rejected"]
                 /\ UNCHANGED <<input, result, heap, heap0>>
           \/ \* the use-case input is built: { requester, payload }
              LET chain == PureSyncChain(r, r, TRUE, TRUE, l, d)
              IN /\ calls' = calls \o chain
                 /\ input' = [input EXCEPT ![r] =
                        [requester |-> requester[r].id,
                         payload |-> chain[Len(chain)].val]]
                 /\ pc' = [pc EXCEPT ![r] = "mapped"]
                 /\ UNCHANGED <<result, heap, heap0, resolved>>
    /\ UNCHANGED <<translator, repository, given, status, api, todo>>

PureHandleStart(r) ==
    PureHandleStartWith(r, Locales, RequestData, ErrorKinds, MaxTraces, MaxErrors)

\* mutant: execute is called again when its first call returned
Execute_Retried(r) ==
    /\ pc[r] = "mapped"
    /\ \/ /\ calls' = calls \o <<Ev(r, "execute", 0, 0, input[r].payload)>>
          /\ pc' = [pc EXCEPT ![r] = "rejected"]
          /\ resolved' = [resolved EXCEPT ![r] = "rejected"]
       \/ /\ calls' = calls \o <<Ev(r, "execute", 0, 0, input[r].payload),
                                  Ev(r, "execute", 0, 0, input[r].payload)>>
          /\ pc' = [pc EXCEPT ![r] = "awaiting"]
          /\ UNCHANGED resolved
    /\ UNCHANGED <<translator, repository, controller, requester, locale,
                   input, context, result, heap, heap0, given, status, api,
                   todo>>

\* .chainSuccess((useCaseInput) => this.interactor.execute(useCaseInput))
Execute(r) ==
    /\ pc[r] = "mapped"
    /\ calls' = calls \o <<Ev(r, "execute", 0, 0, input[r].payload)>>
    /\ \/ \* execute throws (RestoreInteractor, SoftDeleteInteractor)
          /\ pc' = [pc EXCEPT ![r] = "rejected"]
          /\ resolved' = [resolved EXCEPT ![r] = "rejected"]
       \/ \* execute returns a ResultAsync
          /\ pc' = [pc EXCEPT ![r] = "awaiting"]
          /\ UNCHANGED resolved
    /\ UNCHANGED <<translator, repository, controller, requester, locale,
                   input, context, result, heap, heap0, given, status, api,
                   todo>>

\* the ResultAsync returned by the use case settles
UseCaseSettlesWith(r, kinds, maxT, maxE) ==
    /\ pc[r] = "awaiting"
    /\ \E f \in FailureInputsUpTo("execute", kinds, 0, maxT, maxE)
                \cup SuccessInputsUpTo("execute", maxT) :
        /\ result' = [result EXCEPT ![r] = f.res]
        /\ heap' = [heap EXCEPT ![r] = f.heap]
        /\ heap0' = [heap0 EXCEPT ![r] = f.heap]
    /\ pc' = [pc EXCEPT ![r] = "settled"]
    /\ UNCHANGED <<translator, repository, controller, requester, locale,
                   input, context, given, resolved, status, api, calls, todo>>

UseCaseSettles(r) == UseCaseSettlesWith(r, ErrorKinds, MaxTraces, MaxErrors)

\* the requester changes the preferred locale while the use case that
\* createPureController's handle called is awaited
PreferenceChanges(r) ==
    /\ pc[r] = "awaiting"
    /\ controller[r] = "pure"
    /\ \E l \in Locales \ {requester[r].preferredLocale} :
        requester' = [requester EXCEPT ![r].preferredLocale = l]
    /\ UNCHANGED <<translator, repository, pc, controller, locale, input,
                   context, result, heap, heap0, given, resolved, status, api,
                   calls, todo>>

\* mutant: the locale is read again from the requester after the await
LocaleOf_Reread(r) == requester[r].preferredLocale

\* const preferredLocale = request.getRequester().preferredLocale: a local
\* of the invocation, read at line 213
LocaleOf(r) == locale[r]

\* mutant: the context is kept in a field of the controller instance, which
\* the initContext of a later invocation overwrites
ContextOf_InstanceField(r) ==
    LET inits == SelectSeq(calls, LAMBDA e : e.op = "initContext")
    IN inits[Len(inits)].ctx

\* const context = this.initContext(request): a local of the invocation
ContextOf(r) == context[r]

\* mutant: await this.handleError(error, context)
AwaitedHooks_HandleError == {"handleError"}

\* the hook calls handle awaits: none, lines 248-274 contain no await
AwaitedHooks == {}

\* the calls of a stretch of code: up to the first awaited call
UpToAwait(seq) ==
    LET awaited == { i \in 1..Len(seq) : seq[i].op \in AwaitedHooks }
    IN IF awaited = {} THEN seq
       ELSE SubSeq(seq, 1, CHOOSE i \in awaited : \A j \in awaited : i <= j)

\* handle, after the await: lines 248-274
PureResume(r) ==
    /\ pc[r] \in {"settled", "resuming"}
    /\ controller[r] = "pure"
    /\ LET k == PureContinuation(r, result[r], heap[r], LocaleOf(r), ContextOf(r))
           pending == IF pc[r] = "settled" THEN k.calls ELSE todo[r]
           now == UpToAwait(pending)
           rest == SubSeq(pending, Len(now) + 1, Len(pending))
           last == pending[Len(pending)]
       IN /\ calls' = calls \o now
          /\ todo' = [todo EXCEPT ![r] = rest]
          /\ IF pc[r] = "settled"
             THEN /\ heap' = [heap EXCEPT ![r] = k.heap]
                  /\ given' = [given EXCEPT ![r] = k.given]
             ELSE UNCHANGED <<heap, given>>
          /\ IF rest # <<>>
             THEN /\ pc' = [pc EXCEPT ![r] = "resuming"]
                  /\ UNCHANGED resolved
             ELSE /\ pc' = [pc EXCEPT ![r] = "done"]
                  /\ resolved' = [resolved EXCEPT ![r] =
                        IF pc[r] = "settled" THEN k.value
                        ELSE IF last.op = "handleContext" THEN last.val
                        ELSE Undefined]
    /\ UNCHANGED <<translator, repository, controller, requester, locale,
                   input, context, result, heap0, status, api>>

\* ------------------------------------------ PureController.handle (HTTP)
\* DeleteController.checkError: 404 for 'notFound', undefined (0) otherwise
CheckError(code) == IF code = "notFound" THEN 404 ELSE 0

\* getUseCaseInput of the id-based controllers: generateFailure(idNotProvided)
IdNotProvidedKinds == { [type |-> "processError", code |-> "idNotProvided"] }

IdNotProvidedInputs ==
    { f \in FailureInputs("getUseCaseInput", IdNotProvidedKinds, 1) :
        /\ Len(f.res.errors) = 1
        /\ \A m \in Msg : f.heap[m].type = "processError" => f.heap[m].loc = Undefined }

\* mutant: checkError is consulted for every error, the last answer wins
RECURSIVE HttpErrorLoop_NoGuard(_, _, _, _, _, _)
HttpErrorLoop_NoGuard(r, errors, h, l, statusCode, technical) ==
    IF errors = <<>>
    THEN [calls |-> <<>>, heap |-> h, statusCode |-> statusCode,
          technical |-> technical]
    ELSE LET m == Head(errors)
             call == h[m].loc = Undefined
             h1 == IF call THEN Translate(h, m, l) ELSE h
             rest == HttpErrorLoop_NoGuard(r, Tail(errors), h1, l,
                        CheckError(h[m].code),
                        technical \/ h[m].type = "technicalIssue")
         IN [calls |-> (IF call THEN <<Ev(r, "translate", m, 0, l)>> ELSE <<>>)
                       \o <<Ev(r, "checkError", m, 0, "")>>
                       \o rest.calls,
             heap |-> rest.heap,
             statusCode |-> rest.statusCode,
             technical |-> rest.technical]

\* for (const error of result.getErrors()) {
\*     containsTechnicalIssue = containsTechnicalIssue || error.type === 'technicalIssue'
\*     if (error.localizedMessage == undefined) translator.translate(error, culture)
\*     if (statusCode === undefined) statusCode = this.checkError(error) }
RECURSIVE HttpErrorLoop(_, _, _, _, _, _)
HttpErrorLoop(r, errors, h, l, statusCode, technical) ==
    IF errors = <<>>
    THEN [calls |-> <<>>, heap |-> h, statusCode |-> statusCode,
          technical |-> technical]
    ELSE LET m == Head(errors)
             call == h[m].loc = Undefined
             h1 == IF call THEN Translate(h, m, l) ELSE h
             check == statusCode = 0
             rest == HttpErrorLoop(r, Tail(errors), h1, l,
                        IF check THEN CheckError(h[m].code) ELSE statusCode,
                        technical \/ h[m].type = "technicalIssue")
         IN [calls |-> (IF call THEN <<Ev(r, "translate", m, 0, l)>> ELSE <<>>)
                       \o (IF check THEN <<Ev(r, "checkError", m, 0, "")>> ELSE <<>>)
                       \o rest.calls,
             heap |-> rest.heap,
             statusCode |-> rest.statusCode,
             technical |-> rest.technical]

\* { code: m.code, context: m.data, localizedMessage: m.localizedMessage }
ApiResponseTrace(m) ==
    [code |-> m.code, context |-> m.data, localizedMessage |-> m.loc]

\* mutant: metadata.trace is built from getErrors() as well
FailureToApiResponse_ErrorsAsTrace(failure, h) ==
    [success |-> FALSE,
     errors |-> [i \in 1..Len(failure.errors) |->
                    ApiResponseTrace(h[failure.errors[i]])],
     metadata |-> [trace |-> [i \in 1..Len(failure.errors) |->
                    ApiResponseTrace(h[failure.errors[i]])]]]

\* failureToApiResponse(failure): getErrors().map(...), getTraces().map(...)
FailureToApiResponse(failure, h) ==
    [success |-> FALSE,
     errors |-> [i \in 1..Len(failure.errors) |->
                    ApiResponseTrace(h[failure.errors[i]])],
     metadata |-> [trace |-> [i \in 1..Len(failure.traces) |->
                    ApiResponseTrace(h[failure.traces[i]])]]]

\* the envelope setResponse and the standalone handle build: { success: true }
SuccessApiResponse ==
    [success |-> TRUE, errors |-> <<>>, metadata |-> [trace |-> <<>>]]

\* what an implementation of setResponse may pass to response.setStatus
\* itself (0: it does not call it, as in CreateController.setResponse)
SetResponseStatuses == {0, 201}

\* mutant: the status answered by checkError takes precedence over 500
HttpContinuation_StatusFirst(r, res, h, l, override) ==
    LET tr == TranslateTraces(r, res.traces, h, l)
    IN IF res.kind = "Failure"
       THEN LET loop == HttpErrorLoop(r, res.errors, tr.heap, l, 0, FALSE)
                code == IF loop.statusCode # 0 THEN loop.statusCode
                        ELSE IF loop.technical THEN 500 ELSE 400
            IN [calls |-> tr.calls \o loop.calls
                          \o <<Ev(r, "failureToApiResponse", 0, 0, ""),
                               Ev(r, "setStatus", code, 0, "handle")>>,
                heap |-> loop.heap, statusCode |-> code,
                api |-> FailureToApiResponse(res, loop.heap),
                value |-> "apiFailure"]
       ELSE [calls |-> tr.calls
                       \o <<Ev(r, "setResponse", override, 0, "")>>
                       \o (IF override # 0
                           THEN <<Ev(r, "setStatus", override, 0, "setResponse")>>
                           ELSE <<>>)
                       \o <<Ev(r, "setStatus", 200, 0, "handle")>>,
             heap |-> tr.heap, statusCode |-> 200,
             api |-> SuccessApiResponse,
             value |-> "apiSuccess"]

\* mutant: the status is left undefined when checkError answers for no error
HttpContinuation_NoDefault(r, res, h, l, override) ==
    LET tr == TranslateTraces(r, res.traces, h, l)
    IN IF res.kind = "Failure"
       THEN LET loop == HttpErrorLoop(r, res.errors, tr.heap, l, 0, FALSE)
                code == IF loop.technical THEN 500 ELSE loop.statusCode
            IN [calls |-> tr.calls \o loop.calls
                          \o <<Ev(r, "failureToApiResponse", 0, 0, ""),
                               Ev(r, "setStatus", code, 0, "handle")>>,
                heap |-> loop.heap, statusCode |-> code,
                api |-> FailureToApiResponse(res, loop.heap),
                value |-> "apiFailure"]
       ELSE [calls |-> tr.calls
                       \o <<Ev(r, "setResponse", override, 0, "")>>
                       \o (IF override # 0
                           THEN <<Ev(r, "setStatus", override, 0, "setResponse")>>
                           ELSE <<>>)
                       \o <<Ev(r, "setStatus", 200, 0, "handle")>>,
             heap |-> tr.heap, statusCode |-> 200,
             api |-> SuccessApiResponse,
             value |-> "apiSuccess"]

\* everything the HTTP handle does once the awaited chain has settled;
\* statusCode is the argument of the last response.setStatus call; the val of
\* a setStatus call is its caller
HttpContinuation(r, res, h, l, override) ==
    LET tr == TranslateTraces(r, res.traces, h, l)
    IN IF res.kind = "Failure"
       THEN LET loop == HttpErrorLoop(r, res.errors, tr.heap, l, 0, FALSE)
                code == IF loop.technical THEN 500
                        ELSE IF loop.statusCode # 0 THEN loop.statusCode ELSE 400
            IN [calls |-> tr.calls \o loop.calls
                          \o <<Ev(r, "failureToApiResponse", 0, 0, ""),
                               Ev(r, "setStatus", code, 0, "handle")>>,
                heap |-> loop.heap, statusCode |-> code,
                api |-> FailureToApiResponse(res, loop.heap),
                value |-> "apiFailure"]
       ELSE [calls |-> tr.calls
                       \o <<Ev(r, "setResponse", override, 0, "")>>
                       \o (IF override # 0
                           THEN <<Ev(r, "setStatus", override, 0, "setResponse")>>
                           ELSE <<>>)
                       \o <<Ev(r, "setStatus", 200, 0, "handle")>>,
             heap |-> tr.heap, statusCode |-> 200,
             api |-> SuccessApiResponse,
             value |-> "apiSuccess"]

\* the 'id' query parameter of a request: absent or present
QueryIds == {Undefined, "id1"}

\* mutant: getUseCaseInput builds the input without looking at the id
HttpHandleStart_NoIdCheck(r) ==
    /\ pc[r] = "idle"
    /\ controller' = [controller EXCEPT ![r] = "http"]
    /\ \E l \in Locales, id \in QueryIds :
        /\ requester' = [requester EXCEPT ![r].preferredLocale = l]
        /\ locale' = [locale EXCEPT ![r] = l]
        /\ calls' = calls \o <<Ev(r, "getRequester", 0, 0, l),
                               Ev(r, "getUseCaseInput", 0, 0, ""),
                               Ev(r, "getRequester", 0, 0, l),
                               Ev(r, "getQueryParameter", 0, 0, id)>>
        /\ input' = [input EXCEPT ![r] = [requester |-> requester[r].id,
                                           payload |-> id]]
        /\ pc' = [pc EXCEPT ![r] = "mapped"]
        /\ UNCHANGED <<result, heap, heap0>>
    /\ UNCHANGED <<translator, repository, context, given, resolved, status,
                   api, todo>>

\* handle, from its call to the await: lines 30-37, with the getUseCaseInput
\* of the id-based controllers (DeleteController lines 37-52, and the same in
\* RestoreController, SoftDeleteController, UpdateController, FindByIdController)
HttpHandleStart(r) ==
    /\ pc[r] = "idle"
    /\ controller' = [controller EXCEPT ![r] = "http"]
    /\ \E l \in Locales, id \in QueryIds :
        /\ requester' = [requester EXCEPT ![r].preferredLocale = l]
        /\ locale' = [locale EXCEPT ![r] = l]
        /\ calls' = calls \o <<Ev(r, "getRequester", 0, 0, l),
                               Ev(r, "getUseCaseInput", 0, 0, ""),
                               Ev(r, "getRequester", 0, 0, l),
                               Ev(r, "getQueryParameter", 0, 0, id)>>
        /\ IF id = Undefined
           THEN \* generateFailure({ type: 'processError', code: 'idNotProvided' })
                /\ \E f \in IdNotProvidedInputs :
                    /\ result' = [result EXCEPT ![r] = f.res]
                    /\ heap' = [heap EXCEPT ![r] = f.heap]
                    /\ heap0' = [heap0 EXCEPT ![r] = f.heap]
                /\ pc' = [pc EXCEPT ![r] = "settled"]
                /\ UNCHANGED input
           ELSE \* new Success({ requester, id })
                /\ input' = [input EXCEPT ![r] = [requester |-> requester[r].id,
                                                   payload |-> id]]
                /\ pc' = [pc EXCEPT ![r] = "mapped"]
                /\ UNCHANGED <<result, heap, heap0>>
    /\ UNCHANGED <<translator, repository, context, given, resolved, status,
                   api, todo>>

\* handle, after the await: lines 43-87
HttpResume(r) ==
    /\ pc[r] = "settled"
    /\ controller[r] = "http"
    /\ \E override \in SetResponseStatuses :
        /\ result[r].kind = "Failure" => override = 0
        /\ LET k == HttpContinuation(r, result[r], heap[r], LocaleOf(r), override)
           IN /\ calls' = calls \o k.calls
              /\ heap' = [heap EXCEPT ![r] = k.heap]
              /\ status' = [status EXCEPT ![r] = k.statusCode]
              /\ api' = [api EXCEPT ![r] = k.api]
              /\ resolved' = [resolved EXCEPT ![r] = k.value]
    /\ pc' = [pc EXCEPT ![r] = "done"]
    /\ UNCHANGED <<translator, repository, controller, requester, locale,
                   input, context, result, heap0, given, todo>>

\* ------------------------- FindByIdController.handle (find_by_id_controller.ts)
\* for (const error of result.getErrors()) {
\*     switch (error.code) { case 'notFound': statusCode = 404; break; }
\*     containsTechnicalIssue = containsTechnicalIssue || error.type === 'technicalIssue' }
\* statusCode = containsTechnicalIssue ? 500 : 400
RECURSIVE FindByIdErrorLoop(_, _, _, _)
FindByIdErrorLoop(errors, h, statusCode, technical) ==
    IF errors = <<>>
    THEN [statusCode |-> IF technical THEN 500 ELSE 400,
          technical |-> technical]
    ELSE LET m == Head(errors)
         IN FindByIdErrorLoop(Tail(errors), h,
                IF h[m].code = "notFound" THEN 404 ELSE statusCode,
                technical \/ h[m].type = "technicalIssue")

\* everything the standalone handle does with the result: lines 45-72
FindByIdContinuation(r, res, h) ==
    IF res.kind = "Failure"
    THEN LET loop == FindByIdErrorLoop(res.errors, h, 0, FALSE)
         IN [calls |-> <<Ev(r, "failureToApiResponse", 0, 0, ""),
                         Ev(r, "setStatus", loop.statusCode, 0, "handle")>>,
             statusCode |-> loop.statusCode,
             api |-> FailureToApiResponse(res, h),
             value |-> "apiFailure"]
    ELSE [calls |-> <<Ev(r, "setStatus", 200, 0, "handle")>>,
          statusCode |-> 200,
          api |-> SuccessApiResponse,
          value |-> "apiSuccess"]

\* handle, from its call to the await at line 36, or to its return when the
\* id is absent; the requester's preference is not read
FindByIdHandleStart(r) ==
    /\ pc[r] = "idle"
    /\ controller' = [controller EXCEPT ![r] = "findById"]
    /\ \E id \in QueryIds :
        IF id = Undefined
        THEN \* generateFailure('processError', 'idNotProvided', {})
             \E f \in IdNotProvidedInputs :
                LET k == FindByIdContinuation(r, f.res, f.heap)
                IN /\ calls' = calls \o <<Ev(r, "getRequester", 0, 0, ""),
                                          Ev(r, "getQueryParameter", 0, 0, id)>>
                                     \o k.calls
                   /\ result' = [result EXCEPT ![r] = f.res]
                   /\ heap' = [heap EXCEPT ![r] = f.heap]
                   /\ heap0' = [heap0 EXCEPT ![r] = f.heap]
                   /\ status' = [status EXCEPT ![r] = k.statusCode]
                   /\ api' = [api EXCEPT ![r] = k.api]
                   /\ resolved' = [resolved EXCEPT ![r] = k.value]
                   /\ pc' = [pc EXCEPT ![r] = "done"]
                   /\ UNCHANGED input
        ELSE \* this.interactor.findById({ requester, id })
             /\ calls' = calls \o <<Ev(r, "getRequester", 0, 0, ""),
                                    Ev(r, "getQueryParameter", 0, 0, id),
                                    Ev(r, "findById", 0, 0, id)>>
             /\ input' = [input EXCEPT ![r] = [requester |-> requester[r].id,
                                                payload |-> id]]
             /\ pc' = [pc EXCEPT ![r] = "awaiting"]
             /\ UNCHANGED <<result, heap, heap0, status, api, resolved>>
    /\ UNCHANGED <<translator, repository, requester, locale, context, given,
                   todo>>

\* handle, after the await: lines 45-72
FindByIdResume(r) ==
    /\ pc[r] = "settled"
    /\ controller[r] = "findById"
    /\ LET k == FindByIdContinuation(r, result[r], heap[r])
       IN /\ calls' = calls \o k.calls
          /\ status' = [status EXCEPT ![r] = k.statusCode]
          /\ api' = [api EXCEPT ![r] = k.api]
          /\ resolved' = [resolved EXCEPT ![r] = k.value]
    /\ pc' = [pc EXCEPT ![r] = "done"]
    /\ UNCHANGED <<translator, repository, controller, requester, locale,
                   input, context, result, heap, heap0, given, todo>>

\* ----------------------------------------------------------- the interactors
\* the ids of the entities a command may name
EntityIds == {"id1", "id2"}
\* what a repository method returns for a command: a ResultAsync
RepositoryReturn(method, id) == method \o "(" \o id \o ")"
\* this.repository.method(params): arg is params.requester, val is params.id
RepositoryCall(r, method, params) ==
    Ev(r, "repository." \o method, params.requester, 0, params.payload)

\* mutant: restore is called without looking for it first
RestoreExecute_NoCheck(r, params) ==
    [calls |-> <<RepositoryCall(r, "restore", params)>>,
     threw |-> IF "restore" \in repository THEN "none" ELSE "TypeError",
     value |-> IF "restore" \in repository
               THEN RepositoryReturn("restore", params.payload) ELSE Undefined]

\* RestoreInteractor.execute: if (!this.repository.restore) throw new Error(...)
\*                            return this.repository.restore(params)
RestoreExecute(r, params) ==
    IF "restore" \notin repository
    THEN [calls |-> <<>>, threw |-> "Error", value |-> Undefined]
    ELSE [calls |-> <<RepositoryCall(r, "restore", params)>>,
          threw |-> "none",
          value |-> RepositoryReturn("restore", params.payload)]

\* SoftDeleteInteractor.execute: if (!this.repository.softDelete) throw new Error(...)
\*                               return this.repository.softDelete(params)
SoftDeleteExecute(r, params) ==
    IF "softDelete" \notin repository
    THEN [calls |-> <<>>, threw |-> "Error", value |-> Undefined]
    ELSE [calls |-> <<RepositoryCall(r, "softDelete", params)>>,
          threw |-> "none",
          value |-> RepositoryReturn("softDelete", params.payload)]

\* DeleteInteractor.execute: return this.repository.delete(params)
DeleteExecute(r, params) ==
    [calls |-> <<RepositoryCall(r, "delete", params)>>,
     threw |-> "none",
     value |-> RepositoryReturn("delete", params.payload)]

\* UpdateInteractor.update: return this.repository.update(command).mapSuccess(...)
\* with no look at this.repository.update: calling the undefined method is a
\* TypeError
UpdateExecute(r, params) ==
    [calls |-> <<RepositoryCall(r, "update", params)>>,
     threw |-> IF "update" \in repository THEN "none" ELSE "TypeError",
     value |-> IF "update" \in repository
               THEN "mapSuccess(" \o RepositoryReturn("update", params.payload) \o ")"
               ELSE Undefined]

\* one call of an interactor with the params { requester, id }
InteractorCall(r, interactor, entry, out, params) ==
    /\ pc[r] = "idle"
    /\ controller' = [controller EXCEPT ![r] = interactor]
    /\ input' = [input EXCEPT ![r] = params]
    /\ calls' = calls \o <<Ev(r, entry, params.requester, 0, params.payload)>>
                      \o out.calls
    /\ pc' = [pc EXCEPT ![r] = IF out.threw = "none" THEN "returned" ELSE "threw"]
    /\ resolved' = [resolved EXCEPT ![r] =
            IF out.threw = "none" THEN out.value ELSE out.threw]
    /\ UNCHANGED <<translator, repository, requester, locale, context, result,
                   heap, heap0, given, status, api, todo>>

InteractorParams(r) ==
    { [requester |-> r, payload |-> id] : id \in EntityIds }

RestoreInteractorExecute(r) ==
    \E params \in InteractorParams(r) :
        InteractorCall(r, "RestoreInteractor", "execute",
                       RestoreExecute(r, params), params)

SoftDeleteInteractorExecute(r) ==
    \E params \in InteractorParams(r) :
        InteractorCall(r, "SoftDeleteInteractor", "execute",
                       SoftDeleteExecute(r, params), params)

DeleteInteractorExecute(r) ==
    \E params \in InteractorParams(r) :
        InteractorCall(r, "DeleteInteractor", "execute",
                       DeleteExecute(r, params), params)

UpdateInteractorUpdate(r) ==
    \E params \in InteractorParams(r) :
        InteractorCall(r, "UpdateInteractor", "update",
                       UpdateExecute(r, params), params)

\* ------------------------------------------------------------ specification
\* one handle invocation in isolation
Next ==
    \/ PureHandleStart(1)
    \/ Execute(1)
    \/ PreferenceChanges(1)
    \/ UseCaseSettles(1)
    \/ PureResume(1)
    \/ HttpHandleStart(1)
    \/ HttpResume(1)
    \/ FindByIdHandleStart(1)
    \/ FindByIdResume(1)

Spec == Init /\ [][Next]_vars

\* two invocations of createPureController's handle in flight on one
\* controller instance, for one locale and one kind of error
InFlight == {1, 2}
ConcLocales == {"en"}
ConcData == {"d1"}
ConcErrorKinds == { [type |-> "processError", code |-> "notFound"] }

NextConc ==
    \E r \in InFlight :
        \/ PureHandleStartWith(r, ConcLocales, ConcData, ConcErrorKinds, ConcTraces,
                               ConcErrors)
        \/ Execute(r)
        \/ UseCaseSettlesWith(r, ConcErrorKinds, ConcTraces, ConcErrors)
        \/ PureResume(r)

SpecConc == Init /\ [][NextConc]_vars

\* the interactors called on a repository that has any of the optional methods
InitInteractors ==
    /\ translator = "sets"
    /\ pc = [r \in Invocations |-> "idle"]
    /\ controller = [r \in Invocations |-> "none"]
    /\ requester = [r \in Invocations |-> [id |-> r, preferredLocale |-> Undefined]]
    /\ locale = [r \in Invocations |-> Undefined]
    /\ input = [r \in Invocations |-> NoInput]
    /\ context = [r \in Invocations |-> 0]
    /\ result = [r \in Invocations |-> NoResult]
    /\ heap = [r \in Invocations |-> EmptyHeap]
    /\ heap0 = [r \in Invocations |-> EmptyHeap]
    /\ given = [r \in Invocations |-> NoResult]
    /\ resolved = [r \in Invocations |-> "pending"]
    /\ status = [r \in Invocations |-> 0]
    /\ api = [r \in Invocations |-> NoApiResponse]
    /\ repository \in SUBSET OptionalCapabilities
    /\ calls = <<>>
    /\ todo = [r \in Invocations |-> <<>>]

NextInteractors ==
    \E r \in Invocations :
        \/ RestoreInteractorExecute(r)
        \/ SoftDeleteInteractorExecute(r)
        \/ DeleteInteractorExecute(r)
        \/ UpdateInteractorUpdate(r)

SpecInteractors == InitInteractors /\ [][NextInteractors]_vars

\* ---------------------------------------------------------------- call log
CallsOf(r) == SelectSeq(calls, LAMBDA e : e.req = r)
Positions(r, op) ==
    LET cs == CallsOf(r) IN { i \in 1..Len(cs) : cs[i].op = op }
Count(r, op) ==
    Len(SelectSeq(calls, LAMBDA e : e.req = r /\ e.op = op))
CountArg(r, op, m) ==
    Len(SelectSeq(calls, LAMBDA e : e.req = r /\ e.op = op /\ e.arg = m))
\* the arguments of the calls of one operation, in call order
ArgsOf(r, op) ==
    LET cs == SelectSeq(calls, LAMBDA e : e.req = r /\ e.op = op)
    IN [i \in 1..Len(cs) |-> cs[i].arg]
Range(seq) == { seq[i] : i \in 1..Len(seq) }
Returned(r) == pc[r] \in {"done", "rejected"}
Pure(r) == controller[r] = "pure"
Http(r) == controller[r] = "http"
Standalone(r) == controller[r] = "findById"
\* the messages of a sequence that had no localizedMessage when the chain settled
Unlocalized(r, seq) == SelectSeq(seq, LAMBDA m : heap0[r][m].loc = Undefined)

\* ------------------------------------------------------------------ claims
\* C1: on the four paths that produce an aggregate Result (extraction
\* failure, validation failure, use-case Failure, use-case Success) handle
\* calls handleContext exactly once, as its last call, and resolves with the
\* value handleContext returned.
C1_HandleContextOnceLast ==
    \A r \in Invocations :
        (Pure(r) /\ Returned(r) /\ result[r].kind # "none") =>
            LET cs == CallsOf(r)
            IN /\ Count(r, "handleContext") = 1
               /\ cs[Len(cs)].op = "handleContext"
               /\ resolved[r] = cs[Len(cs)].val

C1_Witness ==
    /\ Pure(1) /\ pc[1] = "done"
    /\ result[1].kind = "Failure" /\ result[1].src = "execute"
    /\ Count(1, "handleError") = 2
    /\ resolved[1] = ControllerResultOf(context[1])

\* C2: initContext is called exactly once per invocation and before every
\* other hook or collaborator call.
C2_InitContextOnceFirst ==
    \A r \in Invocations :
        Pure(r) =>
            /\ CallsOf(r) # <<>>
            /\ CallsOf(r)[1].op = "initContext"
            /\ Count(r, "initContext") = 1

C2_Witness ==
    /\ Pure(1) /\ pc[1] = "done"
    /\ Count(1, "execute") = 1 /\ Count(1, "translate") >= 1
    /\ Count(1, "handleSuccess") = 1

\* C3: on a Failure, handleError is called once per error in getErrors()
\* order, then handleFailure exactly once after the last handleError, and
\* handleSuccess never.
C3_FailureDispatch ==
    \A r \in Invocations :
        (Pure(r) /\ pc[r] = "done" /\ result[r].kind = "Failure") =>
            /\ ArgsOf(r, "handleError") = result[r].errors
            /\ Count(r, "handleFailure") = 1
            /\ \A i \in Positions(r, "handleError") :
                \A j \in Positions(r, "handleFailure") : i < j
            /\ Count(r, "handleSuccess") = 0

C3_Witness ==
    /\ Pure(1) /\ pc[1] = "done" /\ result[1].kind = "Failure"
    /\ Len(result[1].errors) = 2
    /\ \E m \in Range(result[1].errors) : heap[1][m].type = "technicalIssue"
    /\ \E m \in Range(result[1].errors) : heap[1][m].type = "processError"

\* C4: on a Success, handleSuccess is called exactly once with that Success,
\* handleError and handleFailure are not called.
C4_SuccessDispatch ==
    \A r \in Invocations :
        (Pure(r) /\ pc[r] = "done" /\ result[r].kind = "Success") =>
            /\ Count(r, "handleSuccess") = 1
            /\ \A i \in Positions(r, "handleSuccess") :
                /\ CallsOf(r)[i].val = "Success"
                /\ CallsOf(r)[i].ctx = context[r]
            /\ Count(r, "handleError") = 0
            /\ Count(r, "handleFailure") = 0

C4_Witness ==
    /\ Pure(1) /\ pc[1] = "done" /\ result[1].kind = "Success"
    /\ Len(result[1].traces) = 2

\* C5: when the extracted data fails schema validation, neither
\* interactor.execute nor mapper.to is ever called.
C5_ValidationFailureSkipsUseCase ==
    \A r \in Invocations :
        (Pure(r) /\ result[r].src = "validate") =>
            /\ Count(r, "execute") = 0
            /\ Count(r, "mapper.to") = 0

C5_Witness ==
    /\ Pure(1) /\ pc[1] = "done" /\ result[1].src = "validate"
    /\ Count(1, "pureZodParse") = 1 /\ Count(1, "handleFailure") = 1

\* C6: when extractRequestData returns a Failure, validation, mapper.to and
\* execute are skipped, but the failure's traces are translated, its errors
\* dispatched (handleError each, handleFailure once) and handleContext called.
C6_ExtractionFailureStillDispatched ==
    \A r \in Invocations :
        (Pure(r) /\ result[r].src = "extract") =>
            /\ Count(r, "pureZodParse") = 0
            /\ Count(r, "mapper.to") = 0
            /\ Count(r, "execute") = 0
            /\ pc[r] = "done" =>
                /\ \A m \in Range(Unlocalized(r, result[r].traces)) :
                    CountArg(r, "translate", m) >= 1
                /\ ArgsOf(r, "handleError") = result[r].errors
                /\ Count(r, "handleFailure") = 1
                /\ Count(r, "handleContext") = 1

C6_Witness ==
    /\ Pure(1) /\ pc[1] = "done" /\ result[1].src = "extract"
    /\ Len(Unlocalized(1, result[1].traces)) = 2
    /\ Len(result[1].errors) = 1
    /\ Count(1, "translate") >= 2

\* C7: the promise returned by handle always resolves and never rejects.
C7_NeverRejects ==
    \A r \in Invocations : Pure(r) => resolved[r] # "rejected"

\* C8: when the use case throws from execute, handle still calls
\* handleContext exactly once before it terminates.
C8_FinalizedWhenExecuteThrows ==
    \A r \in Invocations :
        (Pure(r) /\ pc[r] = "rejected" /\ Count(r, "execute") = 1) =>
            Count(r, "handleContext") = 1

StillUnlocalized(r) ==
    SelectSeq(result[r].errors,
              LAMBDA m : /\ heap0[r][m].loc = Undefined
                         /\ \/ translator = "leaves"
                            \/ m \notin Range(result[r].traces))

C10_LocalizedLeftUntouched ==
    \A r \in Invocations :
        (Pure(r) \/ Http(r)) =>
            \A m \in Range(result[r].traces) \cup Range(result[r].errors) :
                heap0[r][m].loc # Undefined =>
                    /\ CountArg(r, "translate", m) = 0
                    /\ heap[r][m].loc = heap0[r][m].loc

C10_Witness ==
    /\ Http(1) /\ pc[1] = "done" /\ translator = "sets"
    /\ \E m \in Range(result[1].errors) :
        /\ m \in Range(result[1].traces)
        /\ heap0[1][m].loc = "upstream" /\ heap[1][m].loc = "upstream"
    /\ \E m \in Range(result[1].traces) :
        /\ heap0[1][m].loc = Undefined /\ heap[1][m].loc \in Locales
        /\ CountArg(1, "translate", m) = 1

\* C11: every error passed to handleError has been localized before that
\* call: it already had a localizedMessage, or translator.translate was
\* called on it earlier in the same invocation.
C11_LocalizedBeforeHandleError ==
    \A r \in Invocations :
        Pure(r) =>
            \A i \in Positions(r, "handleError") :
                LET m == CallsOf(r)[i].arg
                IN \/ heap0[r][m].loc # Undefined
                   \/ \E j \in Positions(r, "translate") :
                        j < i /\ CallsOf(r)[j].arg = m

C11_Witness ==
    /\ Pure(1) /\ pc[1] = "done"
    /\ Len(result[1].errors) = 2
    /\ \A m \in Range(result[1].errors) :
        /\ m \notin Range(result[1].traces)
        /\ heap0[1][m].loc = Undefined
        /\ heap[1][m].loc \in Locales
    /\ Count(1, "handleError") = 2

\* C12: a use-case Failure is passed through: handleError gets exactly the
\* use case's errors in their order, handleFailure gets a failure with the
\* same errors and traces, and no field of a message other than
\* localizedMessage is changed.
C12_UseCaseFailurePassedThrough ==
    \A r \in Invocations :
        (Pure(r) /\ pc[r] = "done" /\ result[r].kind = "Failure"
            /\ result[r].src = "execute") =>
            /\ ArgsOf(r, "handleError") = result[r].errors
            /\ given[r].errors = result[r].errors
            /\ given[r].traces = result[r].traces
            /\ given[r].kind = "Failure"
            /\ \A m \in Msg :
                /\ heap[r][m].type = heap0[r][m].type
                /\ heap[r][m].code = heap0[r][m].code

C12_Witness ==
    /\ Pure(1) /\ pc[1] = "done" /\ result[1].kind = "Failure"
    /\ result[1].src = "execute"
    /\ Len(result[1].errors) = 2 /\ Len(result[1].traces) = 3
    /\ heap0[1][result[1].errors[1]].loc = "upstream"
    /\ heap0[1][result[1].errors[2]].loc = Undefined
    /\ given[1] = result[1]

TechnicalErrors(r) ==
    SelectSeq(result[r].errors, LAMBDA m : heap0[r][m].type = "technicalIssue")
\* the errors for which checkError returns a status
StatusErrors(r) ==
    SelectSeq(result[r].errors, LAMBDA m : CheckError(heap0[r][m].code) # 0)
\* the errors up to and including the first for which checkError returns a status
RECURSIVE UpToFirstStatus(_, _)
UpToFirstStatus(r, errors) ==
    IF errors = <<>> THEN <<>>
    ELSE IF CheckError(heap0[r][Head(errors)].code) # 0 THEN <<Head(errors)>>
    ELSE <<Head(errors)>> \o UpToFirstStatus(r, Tail(errors))
LastSetStatus(r) ==
    LET sets == ArgsOf(r, "setStatus") IN sets[Len(sets)]

\* C18: a Failure with at least one technicalIssue error always results in
\* response.setStatus(500), wherever that error is and whatever checkError
\* returns.
C18_TechnicalIssueIs500 ==
    \A r \in Invocations :
        (Http(r) /\ pc[r] = "done" /\ result[r].kind = "Failure"
            /\ TechnicalErrors(r) # <<>>) =>
            /\ status[r] = 500
            /\ ArgsOf(r, "setStatus") = <<500>>

C18_Witness ==
    /\ Http(1) /\ pc[1] = "done" /\ result[1].kind = "Failure"
    /\ Len(result[1].errors) = 2
    /\ heap0[1][result[1].errors[1]].code = "notFound"
    /\ heap0[1][result[1].errors[2]].type = "technicalIssue"
    /\ status[1] = 500

\* C19: a Failure without technicalIssue error results in the status
\* checkError returns for the first error for which it returns one, in 400
\* when it returns none for every error; checkError is not called again once
\* a status is found, and the status is never 500.
C19_FirstCheckErrorStatus ==
    \A r \in Invocations :
        (Http(r) /\ pc[r] = "done" /\ result[r].kind = "Failure"
            /\ TechnicalErrors(r) = <<>>) =>
            /\ status[r] = IF StatusErrors(r) # <<>>
                           THEN CheckError(heap0[r][Head(StatusErrors(r))].code)
                           ELSE 400
            /\ ArgsOf(r, "setStatus") = <<status[r]>>
            /\ ArgsOf(r, "checkError") = UpToFirstStatus(r, result[r].errors)
            /\ status[r] # 500

C19_Witness ==
    /\ Http(1) /\ pc[1] = "done" /\ result[1].kind = "Failure"
    /\ Len(result[1].errors) = 2
    /\ heap0[1][result[1].errors[1]].code = "notFound"
    /\ heap0[1][result[1].errors[2]].code = "invalid"
    /\ status[1] = 404
    /\ Count(1, "checkError") = 1

\* C20: on the success path handle returns the envelope built by setResponse
\* and the response status is 200 unless setResponse set another status, which
\* then is the one in effect when handle returns.
C20_SetResponseOverridesStatus ==
    \A r \in Invocations :
        (Http(r) /\ pc[r] = "done" /\ result[r].kind = "Success") =>
            /\ resolved[r] = "apiSuccess"
            /\ Count(r, "setResponse") = 1
            /\ LET override == ArgsOf(r, "setResponse")[1]
               IN /\ status[r] = IF override # 0 THEN override ELSE 200
                  /\ LastSetStatus(r) = status[r]

\* --------------------------------------------------- concurrent invocations
PreAwaitOps == {"initContext", "getRequester", "extractRequestData",
                "pureZodParse", "mapper.to"}
PostAwaitOps == {"translate", "handleError", "handleFailure", "handleSuccess",
                 "handleContext"}
HookOps == {"handleError", "handleFailure", "handleSuccess", "handleContext"}
\* positions in the log of all invocations
GlobalPositions(r, ops) ==
    { i \in 1..Len(calls) : calls[i].req = r /\ calls[i].op \in ops }
Contiguous(S) == \A i \in S, j \in S : \A k \in i..j : k \in S

\* C14: handle suspends only at its await of the chain: the calls an
\* invocation makes before it (initContext, extraction, validation, mapping)
\* and the calls it makes after it (translation, handleError, handleFailure
\* or handleSuccess, handleContext) are each consecutive in the log of all
\* invocations, no call of another invocation lies among them.
C14_StretchesNotInterleaved ==
    \A r \in Invocations :
        /\ Contiguous(GlobalPositions(r, PreAwaitOps))
        /\ Contiguous(GlobalPositions(r, PostAwaitOps))

\* position in the log of the one call of op by invocation r
PositionOf(r, op) == CHOOSE i \in GlobalPositions(r, {op}) : TRUE

C14_Witness ==
    /\ pc[1] = "done" /\ pc[2] = "done"
    /\ Count(1, "mapper.to") = 1
    /\ Count(1, "handleError") = 1 /\ Count(1, "translate") >= 1
    /\ Count(2, "handleError") = 1
    /\ PositionOf(1, "mapper.to") < PositionOf(2, "initContext")
    /\ PositionOf(2, "initContext") < PositionOf(1, "handleError")
    /\ PositionOf(1, "handleError") < PositionOf(2, "handleError")

\* C15: every hook call of an invocation receives the context object that
\* the initContext call of the same invocation returned.
C15_OwnContext ==
    \A i \in 1..Len(calls) :
        calls[i].op \in HookOps =>
            \E j \in 1..Len(calls) :
                /\ calls[j].op = "initContext"
                /\ calls[j].req = calls[i].req
                /\ calls[j].ctx = calls[i].ctx

C15_Witness ==
    /\ pc[1] = "done" /\ pc[2] = "done"
    /\ PositionOf(1, "initContext") < PositionOf(2, "initContext")
    /\ PositionOf(2, "initContext") < PositionOf(1, "handleContext")
    /\ calls[PositionOf(1, "handleContext")].ctx = calls[PositionOf(1, "initContext")].ctx
    /\ calls[PositionOf(1, "handleContext")].ctx # calls[PositionOf(2, "initContext")].ctx

\* ------------------------------------------------ use-case input and locale
\* the value returned by the one call of op by invocation r
ValueOf(r, op) ==
    LET cs == SelectSeq(calls, LAMBDA e : e.req = r /\ e.op = op) IN cs[1].val

\* C21: when extraction and validation succeed, the argument of
\* interactor.execute is the pair (requester, payload): the requester is the
\* one request.getRequester() returns, the payload is mapper.to applied to the
\* data the schema validation returned, not to the extracted data.
C21_ExecuteGetsMappedValidatedData ==
    \A r \in Invocations :
        (Pure(r) /\ Count(r, "execute") >= 1) =>
            /\ Count(r, "extractRequestData") = 1
            /\ Count(r, "pureZodParse") = 1
            /\ ValueOf(r, "pureZodParse") # ValueOf(r, "extractRequestData")
            /\ input[r].requester = requester[r].id
            /\ input[r].payload = MapperTo(ValueOf(r, "pureZodParse"))
            /\ \A i \in Positions(r, "execute") :
                CallsOf(r)[i].val = input[r].payload

C21_Witness ==
    /\ Pure(1) /\ pc[1] = "done" /\ Count(1, "execute") = 1
    /\ ValueOf(1, "extractRequestData") = "d2"
    /\ input[1] = [requester |-> 1, payload |-> "to(parsed(d2))"]

\* C22: every translator.translate call of one invocation uses the same
\* locale, the preferredLocale read from request.getRequester() before the
\* extraction starts; a change of the requester's preference while the use
\* case is awaited does not change it.
C22_OneLocalePerInvocation ==
    \A r \in Invocations :
        Pure(r) =>
            LET cs == CallsOf(r)
                first == CHOOSE g \in Positions(r, "getRequester") :
                            \A h \in Positions(r, "getRequester") : g <= h
            IN /\ \A e \in Positions(r, "extractRequestData") : first < e
               /\ \A i \in Positions(r, "translate") : cs[i].val = cs[first].val

C22_Witness ==
    /\ Pure(1) /\ pc[1] = "done" /\ translator = "sets"
    /\ locale[1] = "fr" /\ requester[1].preferredLocale = "en"
    /\ Count(1, "translate") = 3
    /\ \A i \in Positions(1, "translate") : CallsOf(1)[i].val = "fr"

\* ------------------------------------------------ translation and dispatch
DispatchOps == {"handleError", "handleFailure", "handleSuccess"}

C24_EmptyFailureDispatch ==
    \A r \in Invocations :
        (Pure(r) /\ pc[r] = "done" /\ result[r].kind = "Failure"
            /\ result[r].errors = <<>>) =>
            /\ Count(r, "handleError") = 0
            /\ Count(r, "handleFailure") = 1
            /\ Count(r, "handleSuccess") = 0
            /\ Count(r, "handleContext") = 1
            /\ \A i \in Positions(r, "handleFailure") :
                \A j \in Positions(r, "handleContext") : i < j

C24_Witness ==
    /\ Pure(1) /\ pc[1] = "done" /\ result[1].kind = "Failure"
    /\ result[1].src = "execute" /\ result[1].errors = <<>>
    /\ Len(result[1].traces) = 1
    /\ given[1].kind = "Failure" /\ given[1].errors = <<>>

\* ------------------------------------------------------- HTTP status, again
\* the response.setStatus calls made by handle itself (line 86)
OwnSetStatus(r) ==
    { i \in Positions(r, "setStatus") : CallsOf(r)[i].val = "handle" }

IdAbsent(r) ==
    /\ Count(r, "getQueryParameter") = 1
    /\ ValueOf(r, "getQueryParameter") = Undefined

\* C26: for the id-based HTTP controllers (the PureController-based Delete,
\* Restore, SoftDelete, Update and FindById controllers and the standalone
\* FindByIdController) a request without 'id' yields a Failure with a single
\* processError of code idNotProvided, the interactor is never invoked, the
\* status is set to 400 and the ApiResponse returned has success false.
C26_IdNotProvided ==
    \A r \in Invocations :
        ((Http(r) \/ Standalone(r)) /\ IdAbsent(r)) =>
            /\ result[r].kind = "Failure"
            /\ Len(result[r].errors) = 1
            /\ heap0[r][result[r].errors[1]].type = "processError"
            /\ heap0[r][result[r].errors[1]].code = "idNotProvided"
            /\ Count(r, "execute") = 0
            /\ Count(r, "findById") = 0
            /\ pc[r] \in {"settled", "done"}
            /\ pc[r] = "done" =>
                /\ status[r] = 400
                /\ ArgsOf(r, "setStatus") = <<400>>
                /\ resolved[r] = "apiFailure"
                /\ api[r].success = FALSE

C26_Witness ==
    /\ Http(1) /\ pc[1] = "done" /\ IdAbsent(1)
    /\ status[1] = 400 /\ api[1].success = FALSE
    /\ Len(api[1].errors) = 1 /\ api[1].errors[1].code = "idNotProvided"

\* the status the PureController-based FindByIdController sets for a Result
ExpectedStatus(r) ==
    IF result[r].kind = "Success" THEN 200
    ELSE IF TechnicalErrors(r) # <<>> THEN 500
    ELSE IF StatusErrors(r) # <<>> THEN 404
    ELSE 400

\* C27: for a use-case Failure with a notFound error and no technicalIssue
\* error FindByIdController.handle sets the status 404, in the standalone
\* implementation as in the PureController-based one, and both set the same
\* status for every use-case result.
C27_NotFoundIs404InBoth ==
    \A r \in Invocations :
        ((Http(r) \/ Standalone(r)) /\ pc[r] = "done"
            /\ result[r].src = "execute") =>
            /\ status[r] = ExpectedStatus(r)
            /\ (/\ result[r].kind = "Failure"
                /\ TechnicalErrors(r) = <<>>
                /\ \E m \in Range(result[r].errors) : heap0[r][m].code = "notFound")
                => status[r] = 404

\* C28: failureToApiResponse returns success false, an errors list with one
\* entry per error of getErrors() in the same order and a metadata.trace
\* list with one entry per trace of getTraces() in the same order, each entry
\* copying code, data (as context) and localizedMessage of its message; the
\* messages of the failure are not modified.
C28_FailureToApiResponseCopies ==
    \A r \in Invocations :
        ((Http(r) \/ Standalone(r)) /\ pc[r] = "done"
            /\ result[r].kind = "Failure") =>
            /\ api[r].success = FALSE
            /\ Len(api[r].errors) = Len(result[r].errors)
            /\ \A i \in 1..Len(result[r].errors) :
                LET m == heap[r][result[r].errors[i]]
                IN /\ api[r].errors[i].code = m.code
                   /\ api[r].errors[i].context = m.data
                   /\ api[r].errors[i].localizedMessage = m.loc
            /\ Len(api[r].metadata.trace) = Len(result[r].traces)
            /\ \A i \in 1..Len(result[r].traces) :
                LET m == heap[r][result[r].traces[i]]
                IN /\ api[r].metadata.trace[i].code = m.code
                   /\ api[r].metadata.trace[i].context = m.data
                   /\ api[r].metadata.trace[i].localizedMessage = m.loc
            /\ \A m \in Msg :
                /\ heap[r][m].type = heap0[r][m].type
                /\ heap[r][m].code = heap0[r][m].code
                /\ heap[r][m].data = heap0[r][m].data
                /\ heap[r][m].loc # heap0[r][m].loc =>
                        CountArg(r, "translate", m) >= 1

C28_Witness ==
    /\ Http(1) /\ pc[1] = "done" /\ result[1].kind = "Failure"
    /\ result[1].src = "execute" /\ translator = "sets"
    /\ Len(api[1].errors) = 2 /\ Len(api[1].metadata.trace) = 3
    /\ api[1].errors[1].localizedMessage = "upstream"
    /\ api[1].errors[2].localizedMessage = "fr"
    /\ api[1].errors[2].context = 3
    /\ api[1].metadata.trace[1].code = "info"
    /\ api[1].metadata.trace[3] = api[1].errors[2]

\* ------------------------------------------------------------- interactors
\* the optional repository method an interactor relies on
CapabilityOf(interactor) ==
    CASE interactor = "RestoreInteractor" -> "restore"
      [] interactor = "SoftDeleteInteractor" -> "softDelete"
      [] interactor = "UpdateInteractor" -> "update"
      [] OTHER -> "none"
\* the calls invocation r made on the repository
RepositoryCalls(r) ==
    SelectSeq(CallsOf(r), LAMBDA e : e.op \in { "repository." \o c :
                c \in OptionalCapabilities \cup {"delete"} })

\* C29: RestoreInteractor.execute and SoftDeleteInteractor.execute throw an
\* Error and call no repository method when the repository has no restore /
\* softDelete; when it has, they call that method exactly once with the
\* unchanged params and return its result.
C29_RestoreSoftDeleteGuarded ==
    \A r \in Invocations :
        controller[r] \in {"RestoreInteractor", "SoftDeleteInteractor"} =>
            LET cap == CapabilityOf(controller[r])
            IN IF cap \notin repository
               THEN /\ pc[r] = "threw"
                    /\ resolved[r] = "Error"
                    /\ RepositoryCalls(r) = <<>>
               ELSE /\ pc[r] = "returned"
                    /\ Len(RepositoryCalls(r)) = 1
                    /\ RepositoryCalls(r)[1].op = "repository." \o cap
                    /\ RepositoryCalls(r)[1].arg = input[r].requester
                    /\ RepositoryCalls(r)[1].val = input[r].payload
                    /\ resolved[r] = RepositoryReturn(cap, input[r].payload)

C29_Witness ==
    /\ repository = {"softDelete", "update"}
    /\ controller[1] = "RestoreInteractor" /\ pc[1] = "threw"
    /\ controller[2] = "SoftDeleteInteractor" /\ pc[2] = "returned"
    /\ resolved[2] = "softDelete(id2)"
    /\ Count(2, "repository.softDelete") = 1

\* C30: every interactor that relies on an optional repository method
\* (UpdateInteractor on update, SoftDeleteInteractor on softDelete,
\* RestoreInteractor on restore) checks that it is present before calling it:
\* when it is absent the interactor throws its own Error and the undefined
\* method is never called.
C30_OptionalCapabilityChecked ==
    \A r \in Invocations :
        (/\ controller[r] \in {"RestoreInteractor", "SoftDeleteInteractor",
                                "UpdateInteractor"}
         /\ CapabilityOf(controller[r]) \notin repository) =>
            /\ pc[r] = "threw"
            /\ resolved[r] = "Error"
            /\ Count(r, "repository." \o CapabilityOf(controller[r])) = 0

====
